---- MODULE Spec2Model ----
(***************************************************************************)
(* Model of the GigSphere canister                                         *)
(* (src/src/icp_rust_boilerplate_backend/src/lib.rs).                      *)
(*                                                                         *)
(* The canister state is the u64 cell ID_COUNTER and the stable B-tree map *)
(* GIG_STORAGE.  Every entry point runs to completion on its own (the      *)
(* Internet Computer executes one message at a time), so each entry point  *)
(* is one action.  A panic inside an entry point traps the message: the    *)
(* caller gets no reply value and every state change of the message is     *)
(* rolled back.                                                            *)
(*                                                                         *)
(* Option<T> is modelled as a sequence of length at most one: None is <<>> *)
(* and Some(x) is <<x>>.                                                   *)
(***************************************************************************)
EXTENDS Integers, Sequences, FiniteSets, TLC

VARIABLES
    counter,    \* ID_COUNTER: the value held by the stable cell
    storage,    \* GIG_STORAGE: function from the stored keys to Gig records
    now,        \* the subnet's clock at the last message: what
                \* ic_cdk::api::time() returns in it
    call,       \* the last message received: entry point, caller, arguments
    ret,        \* the reply to that message
    posted,     \* history: the ids returned by the post_gig calls, in order
    deleted,    \* history: the ids of the successful delete_gig calls
    scenario,   \* history: how far the run so far follows the scenario of
                \* the specification's section 8
    written,    \* history: for each id posted and not deleted since, the gig
                \* the last successful post, assign, approve or update of
                \* that id returned
    mutated     \* history: the ids posted and not deleted since on which an
                \* assign, approve or update has succeeded

vars == <<counter, storage, now, call, ret, posted, deleted, scenario, written,
          mutated>>

----------------------------------------------------------------------------
(* Bounds of the model.                                                    *)

\* number of post_gig calls that complete in one run
MaxPosts == 2
\* largest value of the clock
MaxTime == 1

----------------------------------------------------------------------------
(* Data.                                                                   *)

None == <<>>
Some(x) == <<x>>

\* BoundedStorable::MAX_SIZE
MAX_SIZE == 2048

\* Two principals (their raw bytes) and Principal::to_string on them.
A == <<0, 0, 0, 0, 0, 0, 0, 1, 1, 1>>
B == <<0, 0, 0, 0, 0, 0, 0, 2, 1, 1>>
Principals == {A, B}

ToText(p) ==
    IF p = A THEN "rrkah-fqaaa-aaaaa-aaaaq-cai" ELSE "ryjl3-tyaaa-aaaaa-aaaba-cai"

GigStatus == {"Open", "Assigned", "Approved", "Disputed"}

RECURSIVE Rep(_, _)
\* the string s repeated n times
Rep(s, n) ==
    IF n = 0 THEN ""
    ELSE IF n % 2 = 1 THEN s \o Rep(s, n - 1)
    ELSE LET h == Rep(s, n \div 2) IN h \o h

\* length of the LEB128 encoding of n (n < 2^14 here)
LebLen(n) == IF n < 128 THEN 1 ELSE 2

\* Candid: "DIDL", the type table of Gig (opt text, opt nat64, the
\* 4-alternative variant, the 9-field record), the argument count and the
\* argument's type index.
HeaderSize == 4 + 1 + 2 + 2 + 25 + 53 + 1 + 1

TextSize(s) == LebLen(Len(s)) + Len(s)

\* number of bytes of Encode!(gig)
EncodedSize(gig) ==
    HeaderSize
    + 8                                                   \* id: nat64
    + TextSize(gig.title)
    + TextSize(gig.description)
    + TextSize(gig.employer)
    + 8                                                   \* deadline: nat64
    + (IF gig.assigned_to = None THEN 1
       ELSE 1 + TextSize(gig.assigned_to[1]))             \* opt text
    + 1                                                   \* status: variant tag
    + 8                                                   \* created_at: nat64
    + (IF gig.updated_at = None THEN 1 ELSE 1 + 8)        \* opt nat64

\* what post_gig builds from a payload
NewGig(id, payload, employer, t) ==
    [id |-> id,
     title |-> payload.title,
     description |-> payload.description,
     employer |-> employer,
     deadline |-> payload.deadline,
     assigned_to |-> None,
     status |-> "Open",
     created_at |-> t,
     updated_at |-> None]

\* the length of the longest title with which a gig with description "desc"
\* still fits MAX_SIZE when it is posted
EdgeLen ==
    MAX_SIZE
    - EncodedSize(NewGig(0, [title |-> "", description |-> "desc", deadline |-> 1000],
                         ToText(A), 0))
    - 1

EdgeTitle == Rep("x", EdgeLen)
BigTitle == Rep("x", EdgeLen + 1)

\* the payloads the callers send
Payloads ==
    {[title |-> "Fix bug", description |-> "desc", deadline |-> 1000],
     [title |-> "Fix bug v2", description |-> "desc v2", deadline |-> 2000],
     [title |-> EdgeTitle, description |-> "desc", deadline |-> 1000],
     [title |-> BigTitle, description |-> "desc", deadline |-> 1000]}

\* the worker names the callers send
Workers == {"B", "C"}

\* the ids the callers name
Ids == 0 .. MaxPosts - 1

----------------------------------------------------------------------------
(* The stable structures.                                                  *)

\* a set that fails to store the value
CellSetKeep(cur, value) == [cell |-> cur, result |-> cur]

\* a set that returns the value it stores
CellSetNew(cur, value) == [cell |-> value, result |-> value]

\* Cell::set: stores the value and returns the value it replaces
CellSet(cur, value) == [cell |-> value, result |-> cur]

\* StableBTreeMap::get
MapGet(m, k) == IF k \in DOMAIN m THEN Some(m[k]) ELSE None

\* StableBTreeMap::insert panics when the value's bytes exceed MAX_SIZE
InsertFits(gig) == EncodedSize(gig) <= MAX_SIZE

\* StableBTreeMap::insert
MapInsert(m, k, v) == [x \in DOMAIN m \cup {k} |-> IF x = k THEN v ELSE m[x]]

\* a remove that empties the map
MapRemoveAll(m, k) == [x \in {} |-> m[x]]

\* a remove that leaves the entry in place
MapRemoveKeep(m, k) == m

\* StableBTreeMap::remove
MapRemove(m, k) == [x \in DOMAIN m \ {k} |-> m[x]]

----------------------------------------------------------------------------
(* Replies.                                                                *)

\* post_gig returns a Gig; the guarded entry points return Result<Gig, String>
\* or Result<String, String>; the queries return Option<Gig> and Vec<Gig>.
Reply(gig) == [kind |-> "Gig", gig |-> gig]
Ok(gig) == [kind |-> "Ok", gig |-> gig]
OkMsg(msg) == [kind |-> "Ok", msg |-> msg]
Err(msg) == [kind |-> "Err", msg |-> msg]
Found(opt) == [kind |-> "Option", opt |-> opt]
Listing(gigs) == [kind |-> "Vec", gigs |-> gigs]
\* the message panicked: no reply value, state rolled back
Trap == [kind |-> "Trap"]

----------------------------------------------------------------------------
(* The guards and the mutations of the entry points.                       *)

\* the comparison inverted
NotEmployerInverted(gig, c) == gig.employer = ToText(c)

\* gig.employer != caller().to_string()
NotEmployer(gig, c) == gig.employer # ToText(c)

\* the state guard left out
NotOpenSkipped(gig) == FALSE

\* gig.status != GigStatus::Open
NotOpen(gig) == gig.status # "Open"

\* the comparison made with the wrong variant
IsDisputed(gig) == gig.status = "Disputed"

\* the state guard of update_gig left out
IsApprovedNever(gig) == FALSE

\* gig.status == GigStatus::Approved
IsApproved(gig) == gig.status = "Approved"

\* assign_gig without the status change
AssignKeepStatus(gig, worker, t) ==
    [gig EXCEPT !.assigned_to = Some(worker), !.updated_at = Some(t)]

\* the assignments of assign_gig
Assign(gig, worker, t) ==
    [gig EXCEPT !.assigned_to = Some(worker),
                !.status = "Assigned",
                !.updated_at = Some(t)]

\* approve_gig without the stamp
ApproveUnstamped(gig, t) == [gig EXCEPT !.status = "Approved"]

\* the assignments of approve_gig
Approve(gig, t) ==
    [gig EXCEPT !.status = "Approved", !.updated_at = Some(t)]

\* update_gig rebuilding the gig as post_gig builds it, without a worker
UpdateClearing(gig, payload, t) ==
    [gig EXCEPT !.title = payload.title,
                !.description = payload.description,
                !.deadline = payload.deadline,
                !.assigned_to = None,
                !.updated_at = Some(t)]

\* update_gig stamping created_at as well
UpdateRestamped(gig, payload, t) ==
    [gig EXCEPT !.title = payload.title,
                !.description = payload.description,
                !.deadline = payload.deadline,
                !.created_at = t,
                !.updated_at = Some(t)]

\* the assignments of update_gig
Update(gig, payload, t) ==
    [gig EXCEPT !.title = payload.title,
                !.description = payload.description,
                !.deadline = payload.deadline,
                !.updated_at = Some(t)]

RECURSIVE IterDescending(_)
\* the values in descending key order
IterDescending(m) ==
    IF DOMAIN m = {} THEN <<>>
    ELSE LET k == CHOOSE x \in DOMAIN m : \A y \in DOMAIN m : x >= y
         IN  <<m[k]>> \o IterDescending([x \in DOMAIN m \ {k} |-> m[x]])

RECURSIVE Iter(_)
\* StableBTreeMap::iter: the values in ascending key order
Iter(m) ==
    IF DOMAIN m = {} THEN <<>>
    ELSE LET k == CHOOSE x \in DOMAIN m : \A y \in DOMAIN m : x <= y
         IN  <<m[k]>> \o Iter([x \in DOMAIN m \ {k} |-> m[x]])

----------------------------------------------------------------------------
(* The state machine.                                                      *)


Init ==
    /\ counter = 0
    /\ storage = <<>>
    /\ now = 0
    /\ call = [op |-> "none"]
    /\ ret = [kind |-> "none"]
    /\ posted = <<>>
    /\ deleted = {}
    /\ scenario = [n |-> 0, id |-> None]
    /\ written = <<>>
    /\ mutated = {}

post_gig(c, payload, t) ==
    LET set == CellSet(counter, counter + 1)
        id == set.result
        gig == NewGig(id, payload, ToText(c), t)
    IN  /\ counter < MaxPosts
        /\ call' = [op |-> "post_gig", caller |-> c, payload |-> payload]
        /\ IF InsertFits(gig)
           THEN /\ counter' = set.cell
                /\ storage' = MapInsert(storage, gig.id, gig)
                /\ ret' = Reply(gig)
           ELSE /\ ret' = Trap
                /\ UNCHANGED <<counter, storage>>
        /\ now' = t

assign_gig(c, id, worker, t) ==
    LET found == MapGet(storage, id)
        gig == found[1]
        new == Assign(gig, worker, t)
    IN  /\ call' = [op |-> "assign_gig", caller |-> c, id |-> id, worker |-> worker]
        /\ IF found = None
           THEN /\ ret' = Err("Gig not found")
                /\ UNCHANGED storage
           ELSE IF NotEmployer(gig, c)
           THEN /\ ret' = Err("Only the employer can assign this gig")
                /\ UNCHANGED storage
           ELSE IF NotOpen(gig)
           THEN /\ ret' = Err("Gig is not open for assignment")
                /\ UNCHANGED storage
           ELSE IF InsertFits(new)
           THEN /\ storage' = MapInsert(storage, new.id, new)
                /\ ret' = Ok(new)
           ELSE /\ ret' = Trap
                /\ UNCHANGED storage
        /\ now' = t
        /\ UNCHANGED counter

approve_gig(c, id, t) ==
    LET found == MapGet(storage, id)
        gig == found[1]
        new == Approve(gig, t)
    IN  /\ call' = [op |-> "approve_gig", caller |-> c, id |-> id]
        /\ IF found = None
           THEN /\ ret' = Err("Gig not found")
                /\ UNCHANGED storage
           ELSE IF NotEmployer(gig, c)
           THEN /\ ret' = Err("Only the employer can approve this gig")
                /\ UNCHANGED storage
           ELSE IF InsertFits(new)
           THEN /\ storage' = MapInsert(storage, new.id, new)
                /\ ret' = Ok(new)
           ELSE /\ ret' = Trap
                /\ UNCHANGED storage
        /\ now' = t
        /\ UNCHANGED counter

\* update_gig with the state guard tested before the authorization guard
update_gig_StateFirst(c, id, payload, t) ==
    LET found == MapGet(storage, id)
        gig == found[1]
        new == Update(gig, payload, t)
    IN  /\ call' = [op |-> "update_gig", caller |-> c, id |-> id, payload |-> payload]
        /\ IF found = None
           THEN /\ ret' = Err("Gig not found")
                /\ UNCHANGED storage
           ELSE IF IsApproved(gig)
           THEN /\ ret' = Err("Approved gigs cannot be updated")
                /\ UNCHANGED storage
           ELSE IF NotEmployer(gig, c)
           THEN /\ ret' = Err("Only the employer can update this gig")
                /\ UNCHANGED storage
           ELSE IF InsertFits(new)
           THEN /\ storage' = MapInsert(storage, new.id, new)
                /\ ret' = Ok(new)
           ELSE /\ ret' = Trap
                /\ UNCHANGED storage
        /\ now' = t
        /\ UNCHANGED counter

update_gig(c, id, payload, t) ==
    LET found == MapGet(storage, id)
        gig == found[1]
        new == Update(gig, payload, t)
    IN  /\ call' = [op |-> "update_gig", caller |-> c, id |-> id, payload |-> payload]
        /\ IF found = None
           THEN /\ ret' = Err("Gig not found")
                /\ UNCHANGED storage
           ELSE IF NotEmployer(gig, c)
           THEN /\ ret' = Err("Only the employer can update this gig")
                /\ UNCHANGED storage
           ELSE IF IsApproved(gig)
           THEN /\ ret' = Err("Approved gigs cannot be updated")
                /\ UNCHANGED storage
           ELSE IF InsertFits(new)
           THEN /\ storage' = MapInsert(storage, new.id, new)
                /\ ret' = Ok(new)
           ELSE /\ ret' = Trap
                /\ UNCHANGED storage
        /\ now' = t
        /\ UNCHANGED counter

\* delete_gig removing the gig before it tests the caller
delete_gig_RemoveFirst(c, id, t) ==
    LET found == MapGet(storage, id)
        gig == found[1]
    IN  /\ call' = [op |-> "delete_gig", caller |-> c, id |-> id]
        /\ IF found = None
           THEN /\ ret' = Err("Gig not found")
                /\ UNCHANGED storage
           ELSE /\ storage' = MapRemove(storage, id)
                /\ ret' = IF NotEmployer(gig, c)
                          THEN Err("Only the employer can delete this gig")
                          ELSE OkMsg("Gig deleted successfully")
        /\ now' = t
        /\ UNCHANGED counter

delete_gig(c, id, t) ==
    LET found == MapGet(storage, id)
        gig == found[1]
    IN  /\ call' = [op |-> "delete_gig", caller |-> c, id |-> id]
        /\ IF found = None
           THEN /\ ret' = Err("Gig not found")
                /\ UNCHANGED storage
           ELSE IF NotEmployer(gig, c)
           THEN /\ ret' = Err("Only the employer can delete this gig")
                /\ UNCHANGED storage
           ELSE /\ storage' = MapRemove(storage, id)
                /\ ret' = OkMsg("Gig deleted successfully")
        /\ now' = t
        /\ UNCHANGED counter

get_all_gigs(t) ==
    /\ call' = [op |-> "get_all_gigs"]
    /\ ret' = Listing(Iter(storage))
    /\ now' = t
    /\ UNCHANGED <<counter, storage>>

get_gig(id, t) ==
    /\ call' = [op |-> "get_gig", id |-> id]
    /\ ret' = Found(MapGet(storage, id))
    /\ now' = t
    /\ UNCHANGED <<counter, storage>>

----------------------------------------------------------------------------
(* History of the run, computed from the message just handled.             *)

\* The scenario of the specification's section 8, as the calls a run makes:
\* post by A, then, on one id, assign to "B" by A, assign to "C" by A,
\* update by B, approve by A, update by A.  scenario.n counts the calls of a
\* run that consists of exactly the first n calls of the scenario;
\* scenario.id is the id the calls after the post name.
ScenarioPayload == [title |-> "Fix bug", description |-> "desc", deadline |-> 1000]

ScenarioOff == [n |-> -1, id |-> None]

ScenarioNext(s, m) ==
    IF s.n = 0 /\ m.op = "post_gig" /\ m.caller = A /\ m.payload = ScenarioPayload
    THEN [n |-> 1, id |-> None]
    ELSE IF s.n = 1 /\ m.op = "assign_gig" /\ m.caller = A /\ m.worker = "B"
    THEN [n |-> 2, id |-> Some(m.id)]
    ELSE IF s.n = 2 /\ m.op = "assign_gig" /\ m.caller = A /\ m.worker = "C"
            /\ Some(m.id) = s.id
    THEN [s EXCEPT !.n = 3]
    ELSE IF s.n = 3 /\ m.op = "update_gig" /\ m.caller = B /\ Some(m.id) = s.id
    THEN [s EXCEPT !.n = 4]
    ELSE IF s.n = 4 /\ m.op = "approve_gig" /\ m.caller = A /\ Some(m.id) = s.id
    THEN [s EXCEPT !.n = 5]
    ELSE IF s.n = 5 /\ m.op = "update_gig" /\ m.caller = A /\ Some(m.id) = s.id
    THEN [s EXCEPT !.n = 6]
    ELSE ScenarioOff

\* the entry points that change a stored gig
Mutators == {"assign_gig", "approve_gig", "update_gig"}

Observe ==
    /\ posted' = IF call'.op = "post_gig" /\ ret'.kind = "Gig"
                 THEN Append(posted, ret'.gig.id) ELSE posted
    /\ deleted' = IF call'.op = "delete_gig" /\ ret'.kind = "Ok"
                  THEN deleted \cup {call'.id} ELSE deleted
    /\ scenario' = ScenarioNext(scenario, call')
    /\ written' =
          IF call'.op = "post_gig" /\ ret'.kind = "Gig"
          THEN [k \in DOMAIN written \cup {ret'.gig.id} |->
                   IF k = ret'.gig.id THEN ret'.gig ELSE written[k]]
          ELSE IF call'.op \in Mutators /\ ret'.kind = "Ok"
          THEN [k \in DOMAIN written \cup {call'.id} |->
                   IF k = call'.id THEN ret'.gig ELSE written[k]]
          ELSE IF call'.op = "delete_gig" /\ ret'.kind = "Ok"
          THEN [k \in DOMAIN written \ {call'.id} |-> written[k]]
          ELSE written
    /\ mutated' = IF call'.op \in Mutators /\ ret'.kind = "Ok"
                  THEN mutated \cup {call'.id}
                  ELSE IF call'.op = "delete_gig" /\ ret'.kind = "Ok"
                  THEN mutated \ {call'.id}
                  ELSE mutated

\* the values time() can return to the next message: the clock of the subnet
\* never goes back
Times == now .. MaxTime

Next ==
    \/ \E c \in Principals, payload \in Payloads, t \in Times :
          post_gig(c, payload, t) /\ Observe
    \/ \E c \in Principals, id \in Ids, worker \in Workers, t \in Times :
          assign_gig(c, id, worker, t) /\ Observe
    \/ \E c \in Principals, id \in Ids, t \in Times :
          approve_gig(c, id, t) /\ Observe
    \/ \E c \in Principals, id \in Ids, payload \in Payloads, t \in Times :
          update_gig(c, id, payload, t) /\ Observe
    \/ \E c \in Principals, id \in Ids, t \in Times :
          delete_gig(c, id, t) /\ Observe
    \/ \E t \in Times : get_all_gigs(t) /\ Observe
    \/ \E id \in Ids, t \in Times : get_gig(id, t) /\ Observe

Spec == Init /\ [][Next]_vars

----------------------------------------------------------------------------
(* Vocabulary of the properties.                                           *)

\* the entry points that look a gig up and test the caller against its employer
Guarded == {"assign_gig", "approve_gig", "update_gig", "delete_gig"}

\* the error values, by the class the specification gives them
NotFound == Err("Gig not found")

Unauthorized(op) ==
    Err(CASE op = "assign_gig" -> "Only the employer can assign this gig"
          [] op = "approve_gig" -> "Only the employer can approve this gig"
          [] op = "update_gig" -> "Only the employer can update this gig"
          [] op = "delete_gig" -> "Only the employer can delete this gig")

InvalidState(op) ==
    Err(CASE op = "assign_gig" -> "Gig is not open for assignment"
          [] op = "update_gig" -> "Approved gigs cannot be updated"
          [] OTHER -> "")

\* the message handled by the step is a call of op
Handles(op) == call'.op = op

\* ... a guarded call on a stored gig
OnStored == call'.op \in Guarded /\ call'.id \in DOMAIN storage

\* ... made by the employer of that gig, or by somebody else
ByEmployer == OnStored /\ storage[call'.id].employer = ToText(call'.caller)
ByOther == OnStored /\ storage[call'.id].employer # ToText(call'.caller)

----------------------------------------------------------------------------
(* C1: whatever calls are made in between, the ids that the successive     *)
(* post_gig calls return are strictly increasing, so no two post_gig calls *)
(* return the same id.                                                     *)
C1_IdsStrictlyIncreasing ==
    \A i, j \in 1 .. Len(posted) : i < j => posted[i] < posted[j]

\* two posts returned, with a delete in between or before
C1_Witness == Len(posted) = 2 /\ deleted # {} /\ call.op = "post_gig"

(* C2, as the specification states it: a post_gig call that reads the      *)
(* counter value c persists c + 1 and returns the new value c + 1 as the   *)
(* id of the gig, so the first post returns id 1, stored under key 1.      *)
C2_ReturnsNewValue ==
    [][(Handles("post_gig") /\ ret'.kind = "Gig")
          => /\ counter' = counter + 1
             /\ ret'.gig.id = counter + 1
             /\ (posted = <<>> => ret'.gig.id = 1 /\ storage'[1] = ret'.gig)]_vars

(* C2, amended: a post_gig call whose record fits MAX_SIZE reads the       *)
(* counter value c, persists c + 1 and returns the old value c as the id   *)
(* of the gig, which it stores under key c; so the first post returns id 0 *)
(* and stores the gig under key 0.  A post_gig call whose record does not  *)
(* fit traps and leaves the counter as it was.                             *)
C2_ReturnsOldValue ==
    [][Handles("post_gig")
          => IF InsertFits(NewGig(counter, call'.payload, ToText(call'.caller), now'))
             THEN /\ ret'.kind = "Gig"
                  /\ counter' = counter + 1
                  /\ ret'.gig.id = counter
                  /\ storage'[counter] = ret'.gig
                  /\ (posted = <<>> => ret'.gig.id = 0 /\ storage'[0] = ret'.gig)
             ELSE ret' = Trap /\ counter' = counter]_vars

\* the second post has returned
C2_Witness == call.op = "post_gig" /\ ret.kind = "Gig" /\ ret.gig.id = 1 /\ counter = 2

(* C3: a guarded call (assign, approve, update, delete) on a stored gig by *)
(* a caller other than the gig's employer returns the Unauthorized error,  *)
(* whatever the status of the gig, and changes neither the record nor the  *)
(* rest of the store.                                                      *)
C3_OthersUnauthorized ==
    [][ByOther => /\ ret' = Unauthorized(call'.op)
                  /\ storage' = storage
                  /\ counter' = counter]_vars

\* somebody else's delete was refused on a gig that is not Open
C3_Witness ==
    /\ call.op = "delete_gig"
    /\ ret = Unauthorized("delete_gig")
    /\ call.id \in DOMAIN storage
    /\ storage[call.id].status = "Approved"

(* C4, as the specification states it: an assign_gig call by the employer  *)
(* of a stored gig succeeds iff the gig is Open; the record it then stores *)
(* and returns is Assigned, to the given worker; when the gig is not Open  *)
(* the call returns the InvalidState error.                                *)
C4_AssignIffOpen ==
    [][(Handles("assign_gig") /\ ByEmployer)
          => LET gig == storage[call'.id]
             IN  /\ (ret'.kind = "Ok") <=> (gig.status = "Open")
                 /\ ret'.kind = "Ok"
                       => /\ ret'.gig.status = "Assigned"
                          /\ ret'.gig.assigned_to = Some(call'.worker)
                          /\ storage'[call'.id] = ret'.gig
                 /\ gig.status # "Open" => ret' = InvalidState("assign_gig")]_vars

\* the record assign_gig is to store
C4_Assigned(gig) ==
    [gig EXCEPT !.assigned_to = Some(call'.worker),
                !.status = "Assigned",
                !.updated_at = Some(now')]

(* C4 on the calls whose record fits MAX_SIZE; the other calls on an Open  *)
(* gig trap and change nothing.                                            *)
C4_WithinBudget ==
    [][(Handles("assign_gig") /\ ByEmployer)
          => LET gig == storage[call'.id]
             IN  IF gig.status # "Open"
                 THEN ret' = InvalidState("assign_gig") /\ storage' = storage
                 ELSE IF InsertFits(C4_Assigned(gig))
                 THEN /\ ret' = Ok(C4_Assigned(gig))
                      /\ storage' = [storage EXCEPT ![call'.id] = C4_Assigned(gig)]
                 ELSE ret' = Trap /\ storage' = storage]_vars

\* an assign by the employer has succeeded / has trapped on an Open gig
C4_Witness == call.op = "assign_gig" /\ ret.kind = "Ok"
C4_TrapWitness ==
    /\ call.op = "assign_gig"
    /\ ret = Trap
    /\ storage[call.id].status = "Open"

(* C5, as the specification states it: an update_gig call by the employer  *)
(* of a stored gig returns the InvalidState error iff the gig is Approved; *)
(* otherwise the stored record gets the title, description and deadline of *)
(* the payload and updated_at, and keeps its status and assigned_to.       *)
C5_Updated(gig) ==
    [gig EXCEPT !.title = call'.payload.title,
                !.description = call'.payload.description,
                !.deadline = call'.payload.deadline,
                !.updated_at = Some(now')]

C5_UpdateUnlessApproved ==
    [][(Handles("update_gig") /\ ByEmployer)
          => LET gig == storage[call'.id]
             IN  /\ (ret' = InvalidState("update_gig")) <=> (gig.status = "Approved")
                 /\ gig.status # "Approved"
                       => storage'[call'.id] = C5_Updated(gig)]_vars

(* C5 on the calls whose record fits MAX_SIZE; the other calls on a gig    *)
(* that is not Approved trap and change nothing.                           *)
C5_WithinBudget ==
    [][(Handles("update_gig") /\ ByEmployer)
          => LET gig == storage[call'.id]
             IN  IF gig.status = "Approved"
                 THEN ret' = InvalidState("update_gig") /\ storage' = storage
                 ELSE IF InsertFits(C5_Updated(gig))
                 THEN /\ ret' = Ok(C5_Updated(gig))
                      /\ storage' = [storage EXCEPT ![call'.id] = C5_Updated(gig)]
                 ELSE ret' = Trap /\ storage' = storage]_vars

C5_Witness ==
    /\ call.op = "update_gig"
    /\ ret.kind = "Ok"
    /\ ret.gig.status = "Assigned"
    /\ ret.gig.title = "Fix bug v2"

(* C6: once delete_gig(id) has succeeded, get_gig(id) returns None, the    *)
(* list of get_all_gigs holds no gig with that id, no later post_gig       *)
(* returns that id, and the id is never again a key of the store.          *)
C6_DeletedStaysGone ==
    \A id \in deleted :
        /\ id \notin DOMAIN storage
        /\ MapGet(storage, id) = None
        /\ \A i \in 1 .. Len(Iter(storage)) : Iter(storage)[i].id # id
        /\ (call.op = "get_gig" /\ call.id = id) => ret = Found(None)
        /\ call.op = "get_all_gigs"
              => \A i \in 1 .. Len(ret.gigs) : ret.gigs[i].id # id
        /\ (call.op = "post_gig" /\ ret.kind = "Gig") => ret.gig.id # id

\* a post has returned after the first gig was deleted
C6_Witness ==
    /\ 0 \in deleted
    /\ call.op = "post_gig"
    /\ ret.kind = "Gig"
    /\ DOMAIN storage = {1}

(* C7, as the specification states it: approve_gig has no status guard: a  *)
(* call by the employer of a stored gig succeeds whatever the status, and  *)
(* the record it stores and returns is the old one with status Approved    *)
(* and updated_at set.                                                     *)
C7_Approved(gig) == [gig EXCEPT !.status = "Approved", !.updated_at = Some(now')]

C7_ApproveFromAnyStatus ==
    [][(Handles("approve_gig") /\ ByEmployer)
          => LET gig == storage[call'.id]
             IN  /\ ret' = Ok(C7_Approved(gig))
                 /\ storage'[call'.id] = C7_Approved(gig)]_vars

(* C7 on the calls whose record fits MAX_SIZE; the others trap and change  *)
(* nothing.                                                                *)
C7_WithinBudget ==
    [][(Handles("approve_gig") /\ ByEmployer)
          => LET gig == storage[call'.id]
             IN  IF InsertFits(C7_Approved(gig))
                 THEN /\ ret' = Ok(C7_Approved(gig))
                      /\ storage' = [storage EXCEPT ![call'.id] = C7_Approved(gig)]
                 ELSE ret' = Trap /\ storage' = storage]_vars

\* an Approved gig has been approved again
C7_Witness ==
    /\ call.op = "approve_gig"
    /\ ret.kind = "Ok"
    /\ ret.gig.updated_at = Some(1)
    /\ ret.gig.assigned_to # None
    /\ now = 1

(* C8: the guarded entry points test existence, then authorization, then   *)
(* state: a call on an id that is not stored returns NotFound whoever      *)
(* calls; a call by somebody else than the employer returns Unauthorized   *)
(* also when the state guard fails too; InvalidState is returned only when *)
(* the gig is stored and the caller is its employer.                       *)
C8_GuardOrder ==
    [][call'.op \in Guarded
          => /\ call'.id \notin DOMAIN storage => ret' = NotFound
             /\ ByOther => ret' = Unauthorized(call'.op)
             /\ ret' \in {InvalidState("assign_gig"), InvalidState("update_gig")}
                   => ByEmployer]_vars

\* somebody else's update was refused as Unauthorized on an Approved gig
C8_Witness ==
    /\ call.op = "update_gig"
    /\ call.id \in DOMAIN storage
    /\ storage[call.id].status = "Approved"
    /\ ret = Unauthorized("update_gig")

(* C9, as the specification states it: post_gig always succeeds; the       *)
(* record it returns is the record it stores under the allocated id: Open, *)
(* not assigned, never updated, the caller as employer, the payload's      *)
(* title, description and deadline; the store grows by exactly one gig.    *)
C9_Posted(g) ==
    /\ g.status = "Open"
    /\ g.assigned_to = None
    /\ g.updated_at = None
    /\ g.employer = ToText(call'.caller)
    /\ g.title = call'.payload.title
    /\ g.description = call'.payload.description
    /\ g.deadline = call'.payload.deadline
    /\ g.id \notin DOMAIN storage
    /\ DOMAIN storage' = DOMAIN storage \cup {g.id}
    /\ storage'[g.id] = g
    /\ \A k \in DOMAIN storage : storage'[k] = storage[k]
    /\ Cardinality(DOMAIN storage') = Cardinality(DOMAIN storage) + 1

C9_PostAlwaysSucceeds ==
    [][Handles("post_gig") => ret'.kind = "Gig" /\ C9_Posted(ret'.gig)]_vars

(* C9 on the calls whose record fits MAX_SIZE; the others trap and change  *)
(* nothing.                                                                *)
C9_WithinBudget ==
    [][Handles("post_gig")
          => IF InsertFits(NewGig(counter, call'.payload, ToText(call'.caller), now'))
             THEN ret'.kind = "Gig" /\ C9_Posted(ret'.gig)
             ELSE ret' = Trap /\ storage' = storage /\ counter' = counter]_vars

C9_Witness ==
    /\ call.op = "post_gig"
    /\ ret.kind = "Gig"
    /\ Cardinality(DOMAIN storage) = 2

(* C10: the scenario.  From the initial state: post by A of ("Fix bug",    *)
(* "desc", 1000); then on id x: assign to "B" by A; assign to "C" by A;    *)
(* update by B; approve by A; update by A.  The replies are, in order: a   *)
(* gig with id x, Open, employer A; a gig with id x, Assigned to "B";      *)
(* InvalidState; Unauthorized; a gig with id x, Approved; InvalidState.    *)
C10_Replies(x) ==
    /\ scenario.n = 1
          => /\ ret.kind = "Gig"
             /\ ret.gig.id = x
             /\ ret.gig.status = "Open"
             /\ ret.gig.employer = ToText(A)
    /\ (scenario.n = 2 /\ scenario.id = Some(x))
          => /\ ret.kind = "Ok"
             /\ ret.gig.id = x
             /\ ret.gig.status = "Assigned"
             /\ ret.gig.assigned_to = Some("B")
    /\ (scenario.n = 3 /\ scenario.id = Some(x)) => ret = InvalidState("assign_gig")
    /\ (scenario.n = 4 /\ scenario.id = Some(x)) => ret = Unauthorized("update_gig")
    /\ (scenario.n = 5 /\ scenario.id = Some(x))
          => /\ ret.kind = "Ok"
             /\ ret.gig.id = x
             /\ ret.gig.status = "Approved"
    /\ (scenario.n = 6 /\ scenario.id = Some(x)) => ret = InvalidState("update_gig")

\* C10 as the specification states it: the scenario with x = 1
C10_ScenarioWithId1 == C10_Replies(1)

\* C10 amended: the scenario with x = 0, the id the first post returns
C10_ScenarioWithId0 == C10_Replies(0)

\* the six calls of the scenario have been made on id 0
C10_Witness == scenario.n = 6 /\ scenario.id = Some(0)

----------------------------------------------------------------------------
(* C11, as the specification states it: a write (post, assign, approve,    *)
(* update) whose record would exceed MAX_SIZE bytes returns an error       *)
(* result to the caller, and the record is stored neither in full nor      *)
(* truncated.                                                              *)

\* the step handles a write that passes its guards with a record over MAX_SIZE
C11_Oversize ==
    \/ /\ Handles("post_gig")
       /\ ~InsertFits(NewGig(counter, call'.payload, ToText(call'.caller), now'))
    \/ /\ Handles("assign_gig") /\ ByEmployer
       /\ storage[call'.id].status = "Open"
       /\ ~InsertFits(C4_Assigned(storage[call'.id]))
    \/ /\ Handles("approve_gig") /\ ByEmployer
       /\ ~InsertFits(C7_Approved(storage[call'.id]))
    \/ /\ Handles("update_gig") /\ ByEmployer
       /\ storage[call'.id].status # "Approved"
       /\ ~InsertFits(C5_Updated(storage[call'.id]))

C11_RecordTooLarge ==
    [][C11_Oversize => /\ ret'.kind = "Err"
                       /\ storage' = storage
                       /\ counter' = counter]_vars

(* C11, what the canister does: such a write traps: the caller gets no     *)
(* result value, store and counter stay as they were, and no stored record *)
(* is ever over MAX_SIZE.                                                  *)
C11_OversizeTraps ==
    [][/\ C11_Oversize => ret' = Trap /\ storage' = storage /\ counter' = counter
       /\ \A k \in DOMAIN storage' : InsertFits(storage'[k])]_vars

\* an update with an oversize payload has trapped
C11_Witness == call.op = "update_gig" /\ ret = Trap

(* C12: get_all_gigs returns exactly the gigs posted and not deleted       *)
(* since, each once, as the last successful write of it returned it, in    *)
(* ascending id order; get_gig(id) returns the record the list holds for   *)
(* id, and None when the list holds none.                                  *)
C12_ListAndGet ==
    LET live == {posted[i] : i \in 1 .. Len(posted)} \ deleted
        list == Iter(storage)
    IN  /\ DOMAIN written = live
        /\ {list[i].id : i \in 1 .. Len(list)} = live
        /\ Len(list) = Cardinality(live)
        /\ \A i, j \in 1 .. Len(list) : i < j => list[i].id < list[j].id
        /\ \A i \in 1 .. Len(list) : list[i] = written[list[i].id]
        /\ \A id \in Ids :
              MapGet(storage, id) = IF id \in live THEN Some(written[id]) ELSE None
        /\ call.op = "get_all_gigs" => ret = Listing(list)
        /\ call.op = "get_gig"
              => ret.opt = IF call.id \in live THEN Some(written[call.id]) ELSE None

\* two gigs listed, the first one changed since its post
C12_Witness ==
    /\ call.op = "get_all_gigs"
    /\ Len(ret.gigs) = 2
    /\ ret.gigs[1].status = "Approved"
    /\ ret.gigs[2].id = 1

(* C13: the status of a stored gig changes only from Open to Assigned (by  *)
(* assign_gig on it) and from Open or Assigned to Approved (by approve_gig *)
(* on it): it never goes back to Open, nor from Approved to Assigned, and  *)
(* no stored gig is ever Disputed.                                         *)
C13_StatusEdges ==
    [][/\ \A k \in DOMAIN storage' : storage'[k].status # "Disputed"
       /\ \A k \in DOMAIN storage \cap DOMAIN storage' :
             LET from == storage[k].status
                 to == storage'[k].status
             IN  from # to
                    => \/ /\ from = "Open" /\ to = "Assigned"
                          /\ Handles("assign_gig") /\ call'.id = k
                       \/ /\ from \in {"Open", "Assigned"} /\ to = "Approved"
                          /\ Handles("approve_gig") /\ call'.id = k]_vars

\* an Assigned gig has been approved
C13_Witness ==
    /\ call.op = "approve_gig"
    /\ ret.kind = "Ok"
    /\ ret.gig.assigned_to = Some("C")

(* C14: Approved is terminal. A stored gig with status Approved keeps, for *)
(* as long as it is stored, status Approved and its title, description,    *)
(* deadline and assigned_to; it leaves the store only by delete_gig of its *)
(* employer, and it changes only by approve_gig of its employer, which     *)
(* changes updated_at and nothing else.                                    *)
C14_ApprovedTerminal ==
    [][\A k \in DOMAIN storage :
          storage[k].status = "Approved"
             => /\ k \notin DOMAIN storage'
                      => Handles("delete_gig") /\ call'.id = k /\ ByEmployer
                /\ k \in DOMAIN storage'
                      => /\ storage'[k].status = "Approved"
                         /\ storage'[k].title = storage[k].title
                         /\ storage'[k].description = storage[k].description
                         /\ storage'[k].deadline = storage[k].deadline
                         /\ storage'[k].assigned_to = storage[k].assigned_to
                         /\ storage'[k] # storage[k]
                               => /\ Handles("approve_gig")
                                  /\ call'.id = k
                                  /\ ByEmployer
                                  /\ storage'[k] =
                                        [storage[k] EXCEPT !.updated_at = Some(now')]
      ]_vars

\* the employer's update of an Approved gig has been refused, the gig is as it was
C14_Witness ==
    /\ call.op = "update_gig"
    /\ ret = InvalidState("update_gig")
    /\ storage[call.id].status = "Approved"
    /\ storage[call.id].title # call.payload.title

(* C15: assigned_to is set at most once. Once a stored gig holds a worker, *)
(* no call changes or clears it for as long as the gig is stored, and an   *)
(* assign_gig on a gig that holds a worker never succeeds.                 *)
C15_AssignedOnce ==
    [][\A k \in DOMAIN storage :
          storage[k].assigned_to # None
             => /\ k \in DOMAIN storage'
                      => storage'[k].assigned_to = storage[k].assigned_to
                /\ (Handles("assign_gig") /\ call'.id = k) => ret'.kind # "Ok"
      ]_vars

\* a second assign, to another worker, has been refused
C15_Witness ==
    /\ call.op = "assign_gig"
    /\ ret = InvalidState("assign_gig")
    /\ storage[call.id].status = "Assigned"
    /\ storage[call.id].assigned_to # Some(call.worker)

(* C16: the gig stored under key k has id k; a key enters the store only   *)
(* by a post_gig, with the id that call returns, the caller as employer    *)
(* and the time of the call as created_at; and for as long as the gig is   *)
(* stored its id, employer and created_at stay as that post_gig set them.  *)
C16_IdentityImmutable ==
    [][\A k \in DOMAIN storage' :
          /\ storage'[k].id = k
          /\ k \in DOMAIN storage
                => /\ storage'[k].employer = storage[k].employer
                   /\ storage'[k].created_at = storage[k].created_at
          /\ k \notin DOMAIN storage
                => /\ Handles("post_gig")
                   /\ ret'.kind = "Gig"
                   /\ ret'.gig = storage'[k]
                   /\ storage'[k].employer = ToText(call'.caller)
                   /\ storage'[k].created_at = now'
      ]_vars

\* gig 1, posted at time 0, has been updated at time 1
C16_Witness ==
    /\ call.op = "update_gig"
    /\ ret.kind = "Ok"
    /\ ret.gig.id = 1
    /\ ret.gig.created_at = 0
    /\ now = 1

(* C17: updated_at of a stored gig is absent exactly when no assign_gig,   *)
(* approve_gig or update_gig has succeeded on it since its post; each such *)
(* success stamps updated_at with the time of the call; and updated_at,    *)
(* when present, is not earlier than created_at.                           *)
C17_UpdatedAt ==
    [][/\ \A k \in DOMAIN storage' :
             /\ storage'[k].updated_at = None <=> k \notin mutated'
             /\ storage'[k].updated_at # None
                   => storage'[k].updated_at[1] >= storage'[k].created_at
       /\ (call'.op \in Mutators /\ ret'.kind = "Ok")
             => storage'[call'.id].updated_at = Some(now')
      ]_vars

\* a gig posted at time 0 and stamped since has been stamped again at time 1
C17_Witness ==
    /\ call.op = "approve_gig"
    /\ ret.kind = "Ok"
    /\ ret.gig.created_at = 0
    /\ ret.gig.updated_at = Some(1)
    /\ ret.gig.assigned_to # None

(* C18: only post_gig changes the id counter; an assign_gig, approve_gig,  *)
(* update_gig or delete_gig on id k, whatever it returns, leaves the       *)
(* counter and every stored gig with another id as they were, and adds no  *)
(* gig; get_gig and get_all_gigs change neither store nor counter.         *)
C18_Frame ==
    [][/\ counter' # counter => Handles("post_gig")
       /\ call'.op \in Guarded
             => /\ counter' = counter
                /\ DOMAIN storage' \subseteq DOMAIN storage
                /\ \A k \in DOMAIN storage \ {call'.id} :
                      k \in DOMAIN storage' /\ storage'[k] = storage[k]
       /\ call'.op \in {"get_gig", "get_all_gigs"}
             => storage' = storage /\ counter' = counter
      ]_vars

\* gig 1 has been changed while gig 0 is stored
C18_Witness ==
    /\ call.op \in Mutators
    /\ ret.kind = "Ok"
    /\ call.id = 1
    /\ 0 \in DOMAIN storage
    /\ counter = 2

(* C19: an assign_gig, approve_gig, update_gig or delete_gig that returns  *)
(* an error (NotFound, Unauthorized, InvalidState) leaves the whole state  *)
(* as it was: the stored ids, every field of every stored gig and the      *)
(* counter; and these are the only errors such a call returns.             *)
C19_ErrorsChangeNothing ==
    [][(call'.op \in Guarded /\ ret'.kind = "Err")
          => /\ ret' \in {NotFound, Unauthorized(call'.op), InvalidState(call'.op)}
             /\ storage' = storage
             /\ counter' = counter]_vars

\* a delete by somebody else has been refused, the gig is stored with its stamp
C19_Witness ==
    /\ call.op = "delete_gig"
    /\ ret = Unauthorized("delete_gig")
    /\ call.id \in DOMAIN storage
    /\ storage[call.id].updated_at # None

(* C20: status and assigned_to of every stored gig agree: an Assigned gig  *)
(* has a worker, an Open gig has none, and a gig with a worker is Assigned *)
(* or Approved (an Approved gig may have none).                            *)
C20_StatusMatchesWorker ==
    \A k \in DOMAIN storage :
       /\ storage[k].status = "Assigned" => storage[k].assigned_to # None
       /\ storage[k].status = "Open" => storage[k].assigned_to = None
       /\ storage[k].assigned_to # None
             => storage[k].status \in {"Assigned", "Approved"}

\* one gig approved directly from Open, the other one after its assignment
C20_Witness ==
    /\ DOMAIN storage = {0, 1}
    /\ storage[0].status = "Approved" /\ storage[0].assigned_to = None
    /\ storage[1].status = "Approved" /\ storage[1].assigned_to # None

====
